---- MODULE Spec2Model ----
(***************************************************************************)
(* State machine of the chat front-end: the Dashboard that mounts the      *)
(* room chat page and the direct-message window, the two components'       *)
(* React state, their effects and handlers, the remote requests they have  *)
(* in flight, and the remote data client (tables and realtime channels).   *)
(***************************************************************************)
EXTENDS Integers, Sequences, FiniteSets, Bags, TLC

\* ---------------------------------------------------------------- bounds
\* rows the remote store accepts into each message table
MaxRows == 2
\* messages a conversation holds when the application starts
MaxHistory == 51
\* rooms the remote store accepts into table rooms
MaxCreated == 2
\* realtime channels open at the same time
MaxChannels == 3
\* remote requests in flight at the same time
MaxPending == 2
\* sessions the user starts (sign-ins)
MaxSessions == 1
\* times the user opens a chat page (room chat or a direct-message window)
MaxVisits == 1

\* ------------------------------------------------------------- constants
Null == "null"
\* the signed-in user's id (useAuth().user.id)
Me == "me"
Peers == {"p1", "p2"}
RoomIds == {"r1", "r2"}
\* rows of table rooms, ascending by created_at
RoomsTable == <<"r1", "r2">>
\* .limit(50) of both loadMessages
Limit == 50

Pages == {"home", "browse-friends", "direct-messages", "room-chat"}

\* the outcome of a request whose catch reads the error: none, or an error
\* object with its code and message
NoError == [code |-> "null", message |-> "null"]
Errors ==
    {[code |-> "PGRST116", message |-> "denied"],
     [code |-> "PGRST301", message |-> "jwt expired"],
     [code |-> "23505", message |-> "duplicate key"],
     [code |-> "23505", message |-> ""]}
Outcomes == {NoError} \cup Errors

\* texts the user can type: empty, whitespace-only, plain, padded
Texts == {<< >>, <<" ">>, <<"a">>, <<" ", "a", " ">>}
\* texts the user can type into a field of the create-room form
RoomTexts == {<< >>, <<" ">>, <<"a">>}
\* the id the store gives the n-th row of rooms
RoomId(n) == "r" \o ToString(n)

\* ------------------------------------------------------------- helpers
RECURSIVE TrimStart(_)
TrimStart(s) ==
    IF s = << >> THEN << >>
    ELSE IF Head(s) = " " THEN TrimStart(Tail(s)) ELSE s

RECURSIVE TrimEnd(_)
TrimEnd(s) ==
    IF s = << >> THEN << >>
    ELSE IF s[Len(s)] = " " THEN TrimEnd(SubSeq(s, 1, Len(s) - 1)) ELSE s

\* String.prototype.trim
Trim(s) == TrimEnd(TrimStart(s))

\* a row of room_messages or direct_messages (the column of the other table
\* is Null)
Row(id, room, sender, receiver, content) ==
    [id |-> id, room_id |-> room, sender_id |-> sender,
     receiver_id |-> receiver, content |-> content, created_at |-> id]

NoRow == Row(0, Null, Null, Null, << >>)

\* .order('created_at', { ascending: true }).limit(50)
FirstN(s, n) == IF Len(s) <= n THEN s ELSE SubSeq(s, 1, n)

\* the columns the room chat page selects: id, content, created_at,
\* sender_id and the joined profile of the sender (named by the sender's id);
\* room_id is not among them
Joined(row) ==
    [id |-> row.id, content |-> row.content, created_at |-> row.created_at,
     sender_id |-> row.sender_id, profiles |-> row.sender_id]

JoinedAll(rows) == [i \in 1..Len(rows) |-> Joined(rows[i])]

\* .select(columns).eq('room_id', roomId).order(created_at).limit(50)
RoomSelect(table, roomId) ==
    LET InRoom(r) == r.room_id = roomId
    IN JoinedAll(FirstN(SelectSeq(table, InRoom), Limit))

\* the conversation predicate of the direct-message window
DmMatch(r, self, peer) ==
    \/ r.sender_id = self /\ r.receiver_id = peer
    \/ r.sender_id = peer /\ r.receiver_id = self

\* .or(and(sender_id.eq.self,receiver_id.eq.peer),and(...))
DmSelect(table, self, peer) ==
    LET InPair(r) == DmMatch(r, self, peer) IN FirstN(SelectSeq(table, InPair), Limit)

\* ------------------------------------------------------------- bags
RECURSIVE SumCopies(_, _)
SumCopies(B, S) ==
    IF S = {} THEN 0
    ELSE LET x == CHOOSE y \in S : TRUE IN B[x] + SumCopies(B, S \ {x})

\* the bag of F(x) for the x of bag B
MapBag(B, F(_)) ==
    [y \in {F(x) : x \in DOMAIN B} |->
        SumCopies(B, {x \in DOMAIN B : F(x) = y})]

One(x) == SetToBag({x})

\* --------------------------------------------------------------- state
VARIABLES
    activePage,          \* Dashboard: useState("home")
    selectedChatUserId,  \* Dashboard: useState(null)
    user,                \* useAuth().user: Null or Me
    roomPage,            \* React state of the mounted RoomChatPage
    dmWindow,            \* React state of the mounted DirectMessageWindow
    commit,              \* phase of the direct-message effect's commit
    room_messages,       \* remote table room_messages, in created_at order
    direct_messages,     \* remote table direct_messages, in created_at order
    channels,            \* bag of the open realtime channels
    requests,            \* bag of the remote requests in flight
    rooms,               \* remote table rooms: room ids in created_at order
    room_members,        \* remote table room_members: [room_id, user_id] rows
    toast,               \* the notification the latest step raised, or Null
    caught,              \* the error the latest step's room-list catch read
    lastCall,            \* what the latest step's call of sendMessage did
    sessions,            \* sessions started so far
    visits               \* chat pages opened so far

dash == <<activePage, selectedChatUserId>>
tables == <<room_messages, direct_messages, rooms, room_members>>
budget == <<sessions, visits>>

vars == <<activePage, selectedChatUserId, user, roomPage, dmWindow, commit,
          room_messages, direct_messages, rooms, room_members, channels,
          requests, toast, caught, lastCall, sessions, visits>>

\* the step raises no notification, runs no catch that reads its error, and
\* is no call of sendMessage
Quiet == toast' = Null /\ caught' = NoError /\ lastCall' = Null

\* useState initial values of RoomChatPage; selectedInRooms is whether the
\* selectedRoom object is an element of the rooms array (a reload makes new
\* objects, and the effect compares selectedRoom by identity); appended is
\* history: the ids the channel callback appended to messages since the
\* [selectedRoom] effect ran last
InitRoomPage ==
    [rooms |-> << >>, selectedRoom |-> Null, selectedInRooms |-> FALSE,
     messages |-> << >>, newMessage |-> << >>,
     newRoom |-> [name |-> << >>, description |-> << >>],
     loading |-> TRUE, sending |-> FALSE, isDialogOpen |-> FALSE,
     appended |-> {}]

\* useState initial values of DirectMessageWindow; cleanup is the function
\* the effect returned last (Null: none), named by the peer it closed over;
\* appended is history: the ids the channel callback appended to messages
\* since the effect subscribed last
InitDmWindow ==
    [messages |-> << >>, newMessage |-> << >>, otherUser |-> Null,
     loading |-> TRUE, sending |-> FALSE, cleanup |-> Null, appended |-> {}]

\* renderMainContent: which page component the Dashboard mounts
RoomMountedAt(page) == page = "room-chat"

DmMountedAt(page, chatUser) ==
    /\ page \notin {"home", "browse-friends", "profile", "room-profile",
                    "audio-settings", "room-chat"}
    /\ chatUser # Null

RoomMounted == RoomMountedAt(activePage)
DmMounted == DmMountedAt(activePage, selectedChatUserId)

\* the application starts: the Dashboard on its home page, signed out
Fresh ==
    /\ activePage = "home"
    /\ selectedChatUserId = Null
    /\ user = Null
    /\ roomPage = InitRoomPage
    /\ dmWindow = InitDmWindow
    /\ commit = "idle"
    /\ channels = EmptyBag
    /\ requests = EmptyBag
    /\ toast = Null
    /\ caught = NoError
    /\ lastCall = Null
    /\ sessions = 0
    /\ visits = 0

Init ==
    /\ Fresh
    /\ room_messages = << >>
    /\ direct_messages = << >>
    /\ rooms = RoomsTable
    /\ room_members = {}

\* ------------------------------------------------- requests, channels
\* a remote request in flight: live is whether the component instance that
\* awaits it is still mounted (a state setter of an unmounted one does nothing)
Req(op, comp, room, self, peer, row, text) ==
    [op |-> op, comp |-> comp, live |-> TRUE, room |-> room, self |-> self,
     peer |-> peer, served |-> FALSE, data |-> << >>, row |-> row,
     text |-> text]

\* an open realtime channel with the values its callback closed over and the
\* insert events not delivered yet
Chan(comp, room, self, peer) ==
    [comp |-> comp, live |-> TRUE, room |-> room, self |-> self,
     peer |-> peer, queue |-> << >>]

Pending == BagCardinality(requests)
Open == BagCardinality(channels)

\* channels open once the registered cleanup of the window has run
OpenAfterCleanup == Open - (IF dmWindow.cleanup # Null THEN 1 ELSE 0)

LoadRoomsReq(sel) == Req("loadRooms", "room", sel, Null, Null, NoRow, << >>)
RoomLoadReq(roomId) == Req("loadMessages", "room", roomId, Null, Null, NoRow, << >>)
DmLoadReq(self, peer) == Req("loadMessages", "dm", Null, self, peer, NoRow, << >>)
OtherUserReq(peer) == Req("loadOtherUser", "dm", Null, Null, peer, NoRow, << >>)
RefetchReq(row) == Req("refetch", "room", Null, Null, Null, row, << >>)
InsertReq(comp, row, text) == Req("insert", comp, Null, Null, Null, row, text)
\* the inserts of createRoom: sel is the selectedRoom its loadRooms closes
\* over, data the row the room insert returned
CreateRoomReq(sel, u, name) == Req("createRoom", "room", sel, u, Null, NoRow, name)
AddMemberReq(sel, u, roomId) ==
    [Req("addMember", "room", sel, u, Null, NoRow, << >>) EXCEPT !.data = <<roomId>>]

\* The instance of component comp unmounts. What it awaits resolves into
\* state setters that do nothing: a re-fetch then leaves no trace and is not
\* followed further, a load can still raise its notification (its result no
\* longer matters), an insert still stores its row.
OrphanRequests(reqs, comp) ==
    LET Mark(x) ==
            IF x.comp # comp THEN x
            ELSE IF x.op \in {"insert", "createRoom", "addMember"}
            THEN [x EXCEPT !.live = FALSE]
            ELSE [Req(x.op, comp, Null, Null, Null, NoRow, << >>)
                    EXCEPT !.live = FALSE]
        kept == {x \in DOMAIN reqs : ~(x.comp = comp /\ x.op = "refetch")}
    IN MapBag([x \in kept |-> reqs[x]], Mark)

\* The channels of the unmounted instance stay open until something removes
\* them; their callbacks change no state, so their events are not followed.
OrphanChannels(chs, comp) ==
    LET Mark(x) == IF x.comp = comp
                   THEN [x EXCEPT !.live = FALSE, !.queue = << >>] ELSE x
    IN MapBag(chs, Mark)

\* ------------------------------------------------------ RoomChatPage
\* subscribeToMessages(roomId): opens a channel filtered by room_id; the
\* function it returns is dropped by the caller
RoomSubscribe(chs, roomId) == chs (+) One(Chan("room", roomId, Null, Null))

\* useEffect(..., [selectedRoom]) for a selection that changed to sel
RoomEffectRequests(reqs, sel) ==
    IF sel # Null THEN reqs (+) One(RoomLoadReq(sel)) ELSE reqs

RoomEffectChannels(chs, sel) ==
    IF sel # Null THEN RoomSubscribe(chs, sel) ELSE chs

\* useEffect(..., [user]): loadRooms() when a user is signed in; the call
\* closes over the selectedRoom of the render it was made in
UserEffectRequests(reqs, u, sel) ==
    IF u # Null THEN reqs (+) One(LoadRoomsReq(sel)) ELSE reqs

\* ------------------------------------------------------------ Dashboard
\* a render of the Dashboard with a new page or chat user: the components of
\* the old render unmount, those of the new one mount with fresh state and
\* run their effects
Remount(page, chatUser) ==
    LET roomWas == RoomMounted
        roomNow == RoomMountedAt(page)
        dmWas   == DmMounted
        dmNow   == DmMountedAt(page, chatUser)
        opens   == (roomNow /\ ~roomWas) \/ (dmNow /\ ~dmWas)
        kept    == IF roomWas /\ ~roomNow THEN OrphanRequests(requests, "room")
                   ELSE IF dmWas /\ ~dmNow THEN OrphanRequests(requests, "dm")
                   ELSE requests
    IN
    /\ opens => visits < MaxVisits
    /\ visits' = IF opens THEN visits + 1 ELSE visits
    /\ roomNow /\ ~roomWas /\ user # Null => Pending + 1 <= MaxPending
    /\ dmNow /\ user # Null =>
           Pending + 2 <= MaxPending /\ OpenAfterCleanup + 1 <= MaxChannels
    /\ roomPage' = IF roomWas /\ roomNow THEN roomPage ELSE InitRoomPage
    /\ dmWindow' = IF dmWas /\ dmNow THEN dmWindow
                   ELSE [InitDmWindow EXCEPT !.cleanup = dmWindow.cleanup]
    /\ requests' = IF roomNow /\ ~roomWas
                   THEN UserEffectRequests(kept, user, Null)
                   ELSE kept
    /\ channels' = IF roomWas /\ ~roomNow THEN OrphanChannels(channels, "room")
                   ELSE IF dmWas /\ ~dmNow THEN OrphanChannels(channels, "dm")
                   ELSE channels
    /\ commit' = IF dmWas /\ (~dmNow \/ chatUser # selectedChatUserId)
                 THEN "cleanup"
                 ELSE IF dmNow /\ ~dmWas THEN "effect" ELSE "idle"

\* MainNavigation: onPageChange(pageId) = setActivePage(pageId)
Navigate(p) ==
    /\ commit = "idle"
    /\ p # activePage
    /\ activePage' = p
    /\ Remount(p, selectedChatUserId)
    /\ Quiet
    /\ UNCHANGED <<selectedChatUserId, user, tables, sessions>>

\* HandleMessageUser with a handler that sets the chat user and leaves the
\* page where it is
HandleMessageUserKeepsPage(u) ==
    /\ commit = "idle"
    /\ activePage = "browse-friends"
    /\ selectedChatUserId' = u
    /\ Remount(activePage, u)
    /\ Quiet
    /\ UNCHANGED <<activePage, user, tables, sessions>>

\* handleMessageUser(userId), passed to BrowseFriendsPage
HandleMessageUser(u) ==
    /\ commit = "idle"
    /\ activePage = "browse-friends"
    /\ selectedChatUserId' = u
    /\ activePage' = "direct-messages"
    /\ Remount("direct-messages", u)
    /\ Quiet
    /\ UNCHANGED <<user, tables, sessions>>

\* ChatList: onSelectChat = setSelectedChatUserId
SelectChat(u) ==
    /\ commit = "idle"
    /\ activePage = "direct-messages"
    /\ u # selectedChatUserId
    /\ selectedChatUserId' = u
    /\ Remount(activePage, u)
    /\ Quiet
    /\ UNCHANGED <<activePage, user, tables, sessions>>

\* useAuth: the session starts or ends; both components depend on user
AuthChange ==
    /\ commit = "idle"
    /\ user = Null => sessions < MaxSessions
    /\ user' = IF user = Null THEN Me ELSE Null
    /\ sessions' = IF user = Null THEN sessions + 1 ELSE sessions
    /\ RoomMounted /\ user' # Null => Pending + 1 <= MaxPending
    /\ DmMounted /\ user' # Null =>
           Pending + 2 <= MaxPending /\ OpenAfterCleanup + 1 <= MaxChannels
    /\ requests' = IF RoomMounted
                   THEN UserEffectRequests(requests, user', roomPage.selectedRoom)
                   ELSE requests
    /\ commit' = IF DmMounted THEN "cleanup" ELSE "idle"
    /\ Quiet
    /\ UNCHANGED <<dash, roomPage, dmWindow, tables, channels, visits>>

\* --------------------------------------------------- DirectMessageWindow
\* RunCleanup with an effect that drops the function subscribeToMessages
\* returns, as the room chat page does
RunCleanupKeepsChannel ==
    /\ commit = "cleanup"
    /\ dmWindow' = [dmWindow EXCEPT !.cleanup = Null, !.appended = {}]
    /\ commit' = IF DmMounted THEN "effect" ELSE "idle"
    /\ Quiet
    /\ UNCHANGED <<dash, user, roomPage, tables, channels, requests, budget>>

\* the function the effect returned: unsubscribe() = removeChannel(channel)
RunCleanup ==
    /\ commit = "cleanup"
    /\ IF dmWindow.cleanup # Null
       THEN \E ch \in DOMAIN channels :
               /\ ch.comp = "dm"
               /\ ch.peer = dmWindow.cleanup
               /\ channels' = channels (-) One(ch)
       ELSE UNCHANGED channels
    /\ dmWindow' = [dmWindow EXCEPT !.cleanup = Null, !.appended = {}]
    /\ commit' = IF DmMounted THEN "effect" ELSE "idle"
    /\ Quiet
    /\ UNCHANGED <<dash, user, roomPage, tables, requests, budget>>

\* useEffect(..., [otherUserId, user]): loadOtherUser(), loadMessages(),
\* subscribeToMessages()
RunEffect ==
    /\ commit = "effect"
    /\ IF selectedChatUserId # Null /\ user # Null
       THEN /\ requests' = requests (+) One(OtherUserReq(selectedChatUserId))
                                    (+) One(DmLoadReq(user, selectedChatUserId))
            /\ channels' = channels (+) One(Chan("dm", Null, user, selectedChatUserId))
            /\ dmWindow' = [dmWindow EXCEPT !.cleanup = selectedChatUserId,
                                            !.appended = {}]
       ELSE UNCHANGED <<requests, channels, dmWindow>>
    /\ commit' = "idle"
    /\ Quiet
    /\ UNCHANGED <<dash, user, roomPage, tables, budget>>

\* ---------------------------------------------------- remote data client
IsRoomRow(row) == row.room_id # Null

\* the realtime service puts the insert event of row on every channel whose
\* filter it passes (the direct-messages channel states no filter)
Matches(ch, row) ==
    /\ ch.live
    /\ IF ch.comp = "room" THEN IsRoomRow(row) /\ ch.room = row.room_id
       ELSE ~IsRoomRow(row)

Emit(chs, row) ==
    LET Put(ch) == IF Matches(ch, row)
                   THEN [ch EXCEPT !.queue = Append(@, row)] ELSE ch
    IN MapBag(chs, Put)

\* the insert is executed: the row gets its id and timestamp, is stored, and
\* its event is emitted
StoreRoom(row) ==
    LET stored == [row EXCEPT !.id = Len(room_messages) + 1,
                              !.created_at = Len(room_messages) + 1]
    IN /\ Len(room_messages) < MaxRows
       /\ room_messages' = Append(room_messages, stored)
       /\ channels' = Emit(channels, stored)
       /\ UNCHANGED <<direct_messages, rooms, room_members>>

StoreDm(row) ==
    LET stored == [row EXCEPT !.id = Len(direct_messages) + 1,
                              !.created_at = Len(direct_messages) + 1]
    IN /\ Len(direct_messages) < MaxRows
       /\ direct_messages' = Append(direct_messages, stored)
       /\ channels' = Emit(channels, stored)
       /\ UNCHANGED <<room_messages, rooms, room_members>>

\* another user inserts a message; their inserts are followed while this
\* client has the component of that table mounted
InsertByOther(room, sender, receiver) ==
    /\ commit = "idle"
    /\ IF room # Null
       THEN RoomMounted /\ StoreRoom(Row(0, room, sender, Null, <<"a">>))
       ELSE DmMounted /\ StoreDm(Row(0, Null, sender, receiver, <<"a">>))
    /\ Quiet
    /\ UNCHANGED <<dash, user, roomPage, dmWindow, commit, requests, budget>>

\* the server evaluates the select of a loadMessages request
LoadServe(r) ==
    /\ commit = "idle"
    /\ r \in DOMAIN requests
    /\ r.op = "loadMessages"
    /\ r.live
    /\ ~r.served
    /\ LET data == IF r.comp = "room" THEN RoomSelect(room_messages, r.room)
                   ELSE DmSelect(direct_messages, r.self, r.peer)
       IN requests' = (requests (-) One(r))
                      (+) One([r EXCEPT !.served = TRUE, !.data = data])
    /\ Quiet
    /\ UNCHANGED <<dash, user, roomPage, dmWindow, commit, tables, channels,
                   budget>>

\* ------------------------------------------------------ loads resolve
\* ErrorText that prefers the raw message to the known codes
ErrorTextMessageFirst(error, default) ==
    IF error.message # "" THEN error.message
    ELSE IF error.code = "PGRST116"
    THEN "Access denied. Please check your permissions."
    ELSE IF error.code = "PGRST301"
    THEN "Authentication required. Please sign in again."
    ELSE default

\* the text the catch of loadRooms and of createRoom hands to toast.error
ErrorText(error, default) ==
    IF error.code = "PGRST116"
    THEN "Access denied. Please check your permissions."
    ELSE IF error.code = "PGRST301"
    THEN "Authentication required. Please sign in again."
    ELSE IF error.message # "" THEN error.message
    ELSE default

\* loadRooms resolves: setRooms(data), auto-select, the catch, the finally,
\* and the [selectedRoom] effect of the render that follows
LoadRoomsDone(r, error) ==
    /\ commit = "idle"
    /\ r \in DOMAIN requests
    /\ r.op = "loadRooms"
    /\ LET ok      == error = NoError
           rest    == requests (-) One(r)
           data    == rooms
           autosel == ok /\ r.live /\ Len(data) > 0 /\ r.room = Null
           sel     == IF autosel THEN data[1] ELSE roomPage.selectedRoom
       IN /\ autosel => Open + 1 <= MaxChannels
          /\ roomPage' =
               IF r.live
               THEN [roomPage EXCEPT
                       !.rooms = IF ok THEN data ELSE @,
                       !.selectedRoom = sel,
                       !.selectedInRooms = IF ok THEN autosel ELSE @,
                       !.loading = FALSE,
                       !.appended = IF autosel THEN {} ELSE @]
               ELSE roomPage
          /\ requests' = IF autosel THEN RoomEffectRequests(rest, sel) ELSE rest
          /\ channels' = IF autosel THEN RoomEffectChannels(channels, sel)
                         ELSE channels
    /\ toast' = IF error = NoError THEN Null
              ELSE ErrorText(error, "Failed to load rooms")
    /\ caught' = error
    /\ lastCall' = Null
    /\ UNCHANGED <<dash, user, dmWindow, commit, tables, budget>>

\* a room button of the sidebar: onClick = setSelectedRoom(room), then the
\* [selectedRoom] effect
SelectRoom(roomId) ==
    /\ commit = "idle"
    /\ RoomMounted
    /\ ~roomPage.loading
    /\ \E i \in 1..Len(roomPage.rooms) : roomPage.rooms[i] = roomId
    /\ roomId # roomPage.selectedRoom \/ ~roomPage.selectedInRooms
    /\ Pending + 1 <= MaxPending
    /\ Open + 1 <= MaxChannels
    /\ roomPage' = [roomPage EXCEPT !.selectedRoom = roomId,
                                    !.selectedInRooms = TRUE,
                                    !.appended = {}]
    /\ requests' = RoomEffectRequests(requests, roomId)
    /\ channels' = RoomEffectChannels(channels, roomId)
    /\ Quiet
    /\ UNCHANGED <<dash, user, dmWindow, commit, tables, budget>>

\* LoadMessagesDone with a catch that calls loadMessages again
LoadMessagesDoneRetrying(r, ok) ==
    /\ commit = "idle"
    /\ r \in DOMAIN requests
    /\ r.op = "loadMessages"
    /\ r.live => ok = r.served
    /\ requests' = IF ok THEN requests (-) One(r)
                   ELSE (requests (-) One(r))
                            (+) One([r EXCEPT !.served = FALSE, !.data = << >>])
    /\ roomPage' = IF r.comp = "room" /\ r.live /\ ok
                   THEN [roomPage EXCEPT !.messages = r.data]
                   ELSE roomPage
    /\ dmWindow' = IF r.comp = "dm" /\ r.live
                   THEN [dmWindow EXCEPT
                           !.messages = IF ok THEN r.data ELSE @,
                           !.loading = FALSE]
                   ELSE dmWindow
    /\ toast' = IF ok THEN Null ELSE "Failed to load messages"
    /\ caught' = NoError
    /\ lastCall' = Null
    /\ UNCHANGED <<dash, user, commit, tables, channels, budget>>

\* loadMessages resolves, of either component: setMessages(data || []), or
\* the catch; the direct-message window's finally sets loading to false
LoadMessagesDone(r, ok) ==
    /\ commit = "idle"
    /\ r \in DOMAIN requests
    /\ r.op = "loadMessages"
    /\ r.live => ok = r.served
    /\ requests' = requests (-) One(r)
    /\ roomPage' = IF r.comp = "room" /\ r.live /\ ok
                   THEN [roomPage EXCEPT !.messages = r.data]
                   ELSE roomPage
    /\ dmWindow' = IF r.comp = "dm" /\ r.live
                   THEN [dmWindow EXCEPT
                           !.messages = IF ok THEN r.data ELSE @,
                           !.loading = FALSE]
                   ELSE dmWindow
    /\ toast' = IF ok THEN Null ELSE "Failed to load messages"
    /\ caught' = NoError
    /\ lastCall' = Null
    /\ UNCHANGED <<dash, user, commit, tables, channels, budget>>

\* loadOtherUser resolves: setOtherUser(data), or the catch
LoadOtherUserDone(r, ok) ==
    /\ commit = "idle"
    /\ r \in DOMAIN requests
    /\ r.op = "loadOtherUser"
    /\ requests' = requests (-) One(r)
    /\ dmWindow' = IF r.live /\ ok
                   THEN [dmWindow EXCEPT !.otherUser = r.peer]
                   ELSE dmWindow
    /\ toast' = IF ok THEN Null ELSE "Failed to load user information"
    /\ caught' = NoError
    /\ lastCall' = Null
    /\ UNCHANGED <<dash, user, roomPage, commit, tables, channels, budget>>

\* ------------------------------------------------------- room creation
\* the sidebar with the create-room dialog is rendered
SidebarShown == RoomMounted /\ ~roomPage.loading

\* <Dialog open={isDialogOpen} onOpenChange={setIsDialogOpen}>
SetDialogOpen(open) ==
    /\ commit = "idle"
    /\ SidebarShown
    /\ open # roomPage.isDialogOpen
    /\ roomPage' = [roomPage EXCEPT !.isDialogOpen = open]
    /\ Quiet
    /\ UNCHANGED <<dash, user, dmWindow, commit, tables, channels, requests,
                   budget>>

\* onChange of the name and the description input of the dialog
TypeRoomField(field, t) ==
    /\ commit = "idle"
    /\ SidebarShown
    /\ roomPage.isDialogOpen
    /\ t # roomPage.newRoom[field]
    /\ roomPage' = [roomPage EXCEPT !.newRoom[field] = t]
    /\ Quiet
    /\ UNCHANGED <<dash, user, dmWindow, commit, tables, channels, requests,
                   budget>>

\* the early return of createRoom
CreateRoomRejected(u, name) == u = Null \/ Trim(name) = << >>

\* createRoom up to its first await, called by the button of the dialog
CreateRoom ==
    /\ commit = "idle"
    /\ SidebarShown
    /\ roomPage.isDialogOpen
    /\ IF CreateRoomRejected(user, roomPage.newRoom.name)
       THEN UNCHANGED requests
       ELSE /\ Pending + 1 <= MaxPending
            /\ requests' = requests (+) One(CreateRoomReq(roomPage.selectedRoom,
                                               user, roomPage.newRoom.name))
    /\ Quiet
    /\ UNCHANGED <<dash, user, roomPage, dmWindow, commit, tables, channels,
                   budget>>

\* the insert into rooms resolves: the row is stored and createRoom goes on
\* to the membership insert, or the catch notifies the error
RoomInsertDone(r, error) ==
    /\ commit = "idle"
    /\ r \in DOMAIN requests
    /\ r.op = "createRoom"
    /\ IF error = NoError
       THEN /\ Len(rooms) < Len(RoomsTable) + MaxCreated
            /\ rooms' = Append(rooms, RoomId(Len(rooms) + 1))
            /\ requests' = (requests (-) One(r))
                     (+) One([AddMemberReq(r.room, r.self, RoomId(Len(rooms) + 1))
                                EXCEPT !.live = r.live])
            /\ toast' = Null
       ELSE /\ UNCHANGED rooms
            /\ requests' = requests (-) One(r)
            /\ toast' = ErrorText(error, "Failed to create room")
    /\ caught' = error
    /\ lastCall' = Null
    /\ UNCHANGED <<dash, user, roomPage, dmWindow, commit, room_messages,
                   direct_messages, room_members, channels, budget>>

\* AfterCreate that returns at a membership error
AfterCreateIfMember(state, ok) ==
    IF ok
    THEN [state EXCEPT !.newRoom = [name |-> << >>, description |-> << >>],
                       !.isDialogOpen = FALSE]
    ELSE state

\* createRoom after the membership insert, whatever it returned:
\* setNewRoom({ name: "", description: "" }); setIsDialogOpen(false)
AfterCreate(state, ok) ==
    [state EXCEPT !.newRoom = [name |-> << >>, description |-> << >>],
                  !.isDialogOpen = FALSE]

\* the insert into room_members resolves; its error is only logged. Then
\* the form is reset, the dialog closed, loadRooms() called and the success
\* notified
MemberInsertDone(r, ok) ==
    /\ commit = "idle"
    /\ r \in DOMAIN requests
    /\ r.op = "addMember"
    /\ room_members' =
          IF ok THEN room_members \cup {[room_id |-> r.data[1], user_id |-> r.self]}
          ELSE room_members
    /\ roomPage' = IF r.live THEN AfterCreate(roomPage, ok) ELSE roomPage
    /\ requests' = (requests (-) One(r))
             (+) One(IF r.live THEN LoadRoomsReq(r.room)
                     ELSE [LoadRoomsReq(Null) EXCEPT !.live = FALSE])
    /\ toast' = "Room created successfully!"
    /\ caught' = NoError
    /\ lastCall' = Null
    /\ UNCHANGED <<dash, user, dmWindow, commit, room_messages, direct_messages,
                   rooms, channels, budget>>

\* --------------------------------------------------------- live events
\* the row of table with the given id (.eq('id', id).single())
RowById(table, id) == table[CHOOSE i \in 1..Len(table) : table[i].id = id]

\* DmOnInsert without the test of the user pair
DmOnInsertAll(state, ch, newMsg) ==
    [state EXCEPT !.messages = Append(@, newMsg),
                  !.appended = @ \cup {newMsg.id}]

\* the callback of the direct-message channel
DmOnInsert(state, ch, newMsg) ==
    IF DmMatch(newMsg, ch.self, ch.peer)
    THEN [state EXCEPT !.messages = Append(@, newMsg),
                       !.appended = @ \cup {newMsg.id}]
    ELSE state

\* the realtime service delivers the oldest undelivered event of channel ch:
\* the room callback starts its re-fetch, the direct-message callback runs to
\* its end
DeliverEvent(ch) ==
    /\ commit = "idle"
    /\ ch \in DOMAIN channels
    /\ ch.queue # << >>
    /\ channels' = (channels (-) One(ch)) (+) One([ch EXCEPT !.queue = Tail(@)])
    /\ IF ch.comp = "room"
       THEN /\ Pending + 1 <= MaxPending
            /\ requests' = requests (+) One(RefetchReq(Head(ch.queue)))
            /\ UNCHANGED dmWindow
       ELSE /\ dmWindow' = DmOnInsert(dmWindow, ch, Head(ch.queue))
            /\ UNCHANGED requests
    /\ Quiet
    /\ UNCHANGED <<dash, user, roomPage, commit, tables, budget>>

\* OnRefetched appending payload.new without looking at the re-fetch
OnRefetchedAppendsPayload(state, payload, data) ==
    [state EXCEPT !.messages = Append(@, payload),
                  !.appended = @ \cup {payload.id}]

\* the rest of the room callback: if (data) setMessages(prev => [...prev,
\* data]); data is the sequence of the rows the re-fetch returned
OnRefetched(state, payload, data) ==
    IF data # << >>
    THEN [state EXCEPT !.messages = Append(@, data[1]),
                       !.appended = @ \cup {data[1].id}]
    ELSE state

\* the re-fetch of the room callback resolves, with its row or with none
RefetchDone(r, ok) ==
    /\ commit = "idle"
    /\ r \in DOMAIN requests
    /\ r.op = "refetch"
    /\ requests' = requests (-) One(r)
    /\ roomPage' = OnRefetched(roomPage, r.row,
                       IF ok THEN <<Joined(RowById(room_messages, r.row.id))>>
                       ELSE << >>)
    /\ Quiet
    /\ UNCHANGED <<dash, user, dmWindow, commit, tables, channels, budget>>

\* ------------------------------------------------------------ composer
\* the composer is rendered: past the early returns of the render
RoomComposerShown ==
    RoomMounted /\ ~roomPage.loading /\ roomPage.selectedRoom # Null

DmComposerShown ==
    DmMounted /\ ~dmWindow.loading /\ dmWindow.otherUser # Null

\* InputEnabled of an input without the disabled attribute
InputEnabledAlways(sending) == TRUE

\* <Input disabled={sending}>: whether it takes key presses and changes
InputEnabled(sending) == ~sending

\* <Button disabled={!newMessage.trim() || sending}>
ButtonEnabled(text, sending) == ~(Trim(text) = << >> \/ sending)

\* onChange = setNewMessage(e.target.value)
TypeText(t) ==
    /\ commit = "idle"
    /\ \/ /\ RoomComposerShown
          /\ InputEnabled(roomPage.sending)
          /\ t # roomPage.newMessage
          /\ roomPage' = [roomPage EXCEPT !.newMessage = t]
          /\ UNCHANGED dmWindow
       \/ /\ DmComposerShown
          /\ InputEnabled(dmWindow.sending)
          /\ t # dmWindow.newMessage
          /\ dmWindow' = [dmWindow EXCEPT !.newMessage = t]
          /\ UNCHANGED roomPage
    /\ Quiet
    /\ UNCHANGED <<dash, user, commit, tables, channels, requests, budget>>

\* RoomSendRejected testing newMessage without trim()
RoomSendRejectedNoTrim(u, sel, text) == u = Null \/ sel = Null \/ text = << >>

\* the early return of sendMessage, RoomChatPage
RoomSendRejected(u, sel, text) == u = Null \/ sel = Null \/ Trim(text) = << >>

\* the early return of sendMessage, DirectMessageWindow
DmSendRejected(u, text) == u = Null \/ Trim(text) = << >>

\* sendMessage of RoomChatPage up to its await, called by Enter in the input
\* or by a click on the button
RoomSendMessage ==
    /\ commit = "idle"
    /\ RoomComposerShown
    /\ \/ InputEnabled(roomPage.sending)
       \/ ButtonEnabled(roomPage.newMessage, roomPage.sending)
    /\ IF RoomSendRejected(user, roomPage.selectedRoom, roomPage.newMessage)
       THEN /\ lastCall' = "rejected"
            /\ UNCHANGED <<roomPage, requests>>
       ELSE /\ lastCall' = "issued"
            /\ Pending + 1 <= MaxPending
            /\ roomPage' = [roomPage EXCEPT !.sending = TRUE]
            /\ requests' = requests (+) One(InsertReq("room",
                              Row(0, roomPage.selectedRoom, user, Null,
                                  Trim(roomPage.newMessage)),
                              roomPage.newMessage))
    /\ toast' = Null
    /\ caught' = NoError
    /\ UNCHANGED <<dash, user, dmWindow, commit, tables, channels, budget>>

\* sendMessage of DirectMessageWindow up to its await
DmSendMessage ==
    /\ commit = "idle"
    /\ DmComposerShown
    /\ \/ InputEnabled(dmWindow.sending)
       \/ ButtonEnabled(dmWindow.newMessage, dmWindow.sending)
    /\ IF DmSendRejected(user, dmWindow.newMessage)
       THEN /\ lastCall' = "rejected"
            /\ UNCHANGED <<dmWindow, requests>>
       ELSE /\ lastCall' = "issued"
            /\ Pending + 1 <= MaxPending
            /\ dmWindow' = [dmWindow EXCEPT !.sending = TRUE]
            /\ requests' = requests (+) One(InsertReq("dm",
                              Row(0, Null, user, selectedChatUserId,
                                  Trim(dmWindow.newMessage)),
                              dmWindow.newMessage))
    /\ toast' = Null
    /\ caught' = NoError
    /\ UNCHANGED <<dash, user, roomPage, commit, tables, channels, budget>>

\* AfterInsert with setNewMessage("") moved into the finally
AfterInsertClears(state, ok) ==
    [state EXCEPT !.newMessage = << >>, !.sending = FALSE]

\* AfterInsert with setSending(false) at the end of the try, not in a finally
AfterInsertNoFinally(state, ok) ==
    [state EXCEPT !.newMessage = IF ok THEN << >> ELSE @,
                  !.sending = IF ok THEN FALSE ELSE @]

\* sendMessage after its await: setNewMessage("") when the insert succeeded,
\* and the finally
AfterInsert(state, ok) ==
    [state EXCEPT !.newMessage = IF ok THEN << >> ELSE @, !.sending = FALSE]

\* the insert of a sendMessage resolves: the row is stored and its event
\* emitted, or the insert fails; then the rest of sendMessage runs
InsertDone(r, ok) ==
    /\ commit = "idle"
    /\ r \in DOMAIN requests
    /\ r.op = "insert"
    /\ requests' = requests (-) One(r)
    /\ IF ~ok THEN UNCHANGED <<tables, channels>>
       ELSE IF r.comp = "room" THEN StoreRoom(r.row) ELSE StoreDm(r.row)
    /\ roomPage' = IF r.comp = "room" /\ r.live THEN AfterInsert(roomPage, ok)
                   ELSE roomPage
    /\ dmWindow' = IF r.comp = "dm" /\ r.live THEN AfterInsert(dmWindow, ok)
                   ELSE dmWindow
    /\ toast' = IF ok THEN Null ELSE "Failed to send message"
    /\ caught' = NoError
    /\ lastCall' = Null
    /\ UNCHANGED <<dash, user, commit, budget>>

\* ------------------------------------------------------- specification
Next ==
    \/ \E p \in Pages : Navigate(p)
    \/ \E u \in Peers : HandleMessageUser(u)
    \/ \E u \in Peers : SelectChat(u)
    \/ AuthChange
    \/ RunCleanup
    \/ RunEffect
    \/ \E room \in RoomIds : InsertByOther(room, "p1", Null)
    \/ \E p \in Peers : InsertByOther(Null, p, Me)
    \/ \E r \in DOMAIN requests : LoadServe(r)
    \/ \E r \in DOMAIN requests, error \in Outcomes : LoadRoomsDone(r, error)
    \/ \E roomId \in RoomIds : SelectRoom(roomId)
    \/ \E r \in DOMAIN requests, ok \in BOOLEAN : LoadMessagesDone(r, ok)
    \/ \E r \in DOMAIN requests, ok \in BOOLEAN : LoadOtherUserDone(r, ok)
    \/ \E ch \in DOMAIN channels : DeliverEvent(ch)
    \/ \E r \in DOMAIN requests, ok \in BOOLEAN : RefetchDone(r, ok)
    \/ \E t \in Texts : TypeText(t)
    \/ RoomSendMessage
    \/ DmSendMessage
    \/ \E r \in DOMAIN requests, ok \in BOOLEAN : InsertDone(r, ok)

Spec == Init /\ [][Next]_vars

\* ------------------------------------------ room list and creation
\* the room chat page without message traffic: the room list, the selection
\* and the create-room dialog
NextRooms ==
    \/ \E p \in {"home", "room-chat"} : Navigate(p)
    \/ AuthChange
    \/ \E r \in DOMAIN requests : LoadServe(r)
    \/ \E r \in DOMAIN requests, error \in Outcomes : LoadRoomsDone(r, error)
    \/ \E i \in 1..Len(rooms) : SelectRoom(rooms[i])
    \/ \E r \in DOMAIN requests, ok \in BOOLEAN : LoadMessagesDone(r, ok)
    \/ \E open \in BOOLEAN : SetDialogOpen(open)
    \/ \E field \in {"name", "description"}, t \in RoomTexts :
          TypeRoomField(field, t)
    \/ CreateRoom
    \/ \E r \in DOMAIN requests, error \in Outcomes : RoomInsertDone(r, error)
    \/ \E r \in DOMAIN requests, ok \in BOOLEAN : MemberInsertDone(r, ok)

SpecRooms == Init /\ [][NextRooms]_vars

\* ------------------------------------- conversations with a history
\* the tables when the application starts on conversations that already hold
\* messages: k rows of another conversation, then n rows of room r1, or of
\* the pair (me, p1) with alternating senders
RoomHistory(k, n) ==
    [i \in 1..(k + n) |->
        Row(i, IF i <= k THEN "r2" ELSE "r1", "p1", Null, <<"a">>)]

DmHistory(k, n) ==
    [i \in 1..(k + n) |->
        IF i <= k THEN Row(i, Null, "p2", Me, <<"a">>)
        ELSE IF i % 2 = 0 THEN Row(i, Null, "p1", Me, <<"a">>)
        ELSE Row(i, Null, Me, "p1", <<"a">>)]

InitHistory ==
    /\ Fresh
    /\ \E k \in 0..1, n \in 0..MaxHistory :
          /\ room_messages = RoomHistory(k, n)
          /\ direct_messages = DmHistory(k, n)
    /\ rooms = RoomsTable
    /\ room_members = {}

\* the user signs in and opens a conversation; its loads resolve
NextHistory ==
    \/ \E p \in {"browse-friends", "room-chat"} : Navigate(p)
    \/ HandleMessageUser("p1")
    \/ AuthChange
    \/ RunCleanup
    \/ RunEffect
    \/ \E r \in DOMAIN requests : LoadServe(r)
    \/ \E r \in DOMAIN requests, error \in Outcomes : LoadRoomsDone(r, error)
    \/ \E r \in DOMAIN requests, ok \in BOOLEAN : LoadMessagesDone(r, ok)
    \/ \E r \in DOMAIN requests, ok \in BOOLEAN : LoadOtherUserDone(r, ok)

SpecHistory == InitHistory /\ [][NextHistory]_vars

\* ------------------------------------------------------------- claims
IdsOf(list) == {list[i].id : i \in 1..Len(list)}

NoDuplicateIds(list) ==
    \A i, j \in 1..Len(list) : i < j => list[i].id # list[j].id

NonDecreasing(list) ==
    \A i, j \in 1..Len(list) : i < j => list[i].created_at <= list[j].created_at

\* the channels of component comp, each counted as often as it is open
ChannelsOf(comp) ==
    SumCopies(channels, {ch \in DOMAIN channels : ch.comp = comp})

\* the loadMessages that the current activation of a component awaits
RoomLoadPending ==
    \E q \in DOMAIN requests :
        /\ q.op = "loadMessages" /\ q.comp = "room" /\ q.live
        /\ q.room = roomPage.selectedRoom

DmLoadPending ==
    \E q \in DOMAIN requests :
        /\ q.op = "loadMessages" /\ q.comp = "dm" /\ q.live
        /\ q.peer = selectedChatUserId

\* the inserts that the mounted instance of a component awaits
LiveInserts(comp) ==
    SumCopies(requests, {r \in DOMAIN requests :
                            r.op = "insert" /\ r.comp = comp /\ r.live})

\* C1: in both components the message list never holds two entries with the
\* same id, whatever the interleaving of load completions and insert events.
C1_NoDuplicateIds ==
    /\ NoDuplicateIds(roomPage.messages)
    /\ NoDuplicateIds(dmWindow.messages)

\* C2: in both components the message list is non-decreasing by created_at
\* in every reachable state.
C2_NonDecreasing ==
    /\ NonDecreasing(roomPage.messages)
    /\ NonDecreasing(dmWindow.messages)

\* C3: no state has a message appended by a live event of the current
\* activation while the loadMessages of that activation is still pending.
C3_LoadBeforeAppend ==
    /\ RoomLoadPending => roomPage.appended = {}
    /\ DmLoadPending => dmWindow.appended = {}

\* C4: a message of the active conversation that a live event has appended
\* stays in the message list for as long as the conversation is active.
C4_DeliveredStays ==
    /\ \A id \in roomPage.appended :
          RowById(room_messages, id).room_id = roomPage.selectedRoom
              => id \in IdsOf(roomPage.messages)
    /\ \A id \in dmWindow.appended : id \in IdsOf(dmWindow.messages)

\* C5: at most one realtime channel opened by the room chat page is open at
\* any time, after any number of room switches.
C5_OneRoomChannel == ChannelsOf("room") <= 1

\* C6: the direct-message window has at most one channel open at any time;
\* a change of peer or user removes the channel of the old activation before
\* the effect opens the new one, and between commits the window has exactly
\* the channel of its current activation (none without a signed-in user or
\* when it is not mounted).
C6_DmOneChannel ==
    /\ ChannelsOf("dm") <= 1
    /\ commit = "cleanup" =>
          ChannelsOf("dm") = (IF dmWindow.cleanup # Null THEN 1 ELSE 0)
    /\ commit = "effect" => ChannelsOf("dm") = 0
    /\ commit = "idle" =>
          IF DmMounted /\ user # Null
          THEN \E ch \in DOMAIN channels :
                  /\ ch.comp = "dm" /\ ch.live /\ ch.self = user
                  /\ ch.peer = selectedChatUserId
          ELSE ChannelsOf("dm") = 0

\* a second activation: the window shows the profile loaded for the peer
\* before, and its one channel is the one of the peer selected now
C6_Witness ==
    /\ commit = "idle"
    /\ DmMounted
    /\ dmWindow.otherUser \notin {Null, selectedChatUserId}
    /\ ChannelsOf("dm") = 1
    /\ \E ch \in DOMAIN channels : ch.comp = "dm" /\ ch.peer = selectedChatUserId

\* C7: between commits no channel opened by an unmounted component is open.
C7_NoChannelOfUnmounted ==
    commit = "idle" => \A ch \in DOMAIN channels : ch.live

\* empty or whitespace-only
Blank(text) == \A i \in 1..Len(text) : text[i] = " "

\* C8: a call of sendMessage with an empty or whitespace-only input, without
\* a signed-in user or (room chat) without a selected room issues no insert
\* and changes neither the input text, the sending flag nor the message list.
C8_RejectedSendIsNoOp ==
    [][(/\ lastCall' # Null
        /\ \/ /\ RoomMounted
              /\ \/ user = Null
                 \/ roomPage.selectedRoom = Null
                 \/ Blank(roomPage.newMessage)
           \/ /\ DmMounted
              /\ user = Null \/ Blank(dmWindow.newMessage))
       => UNCHANGED <<roomPage, dmWindow, requests, tables, channels>>]_vars

\* Enter was pressed in the room composer holding one blank, with a user
\* signed in, and the call returned early
C8_Witness ==
    /\ lastCall = "rejected"
    /\ RoomMounted
    /\ user # Null
    /\ roomPage.newMessage = <<" ">>
    /\ ~roomPage.sending

\* C9: the mounted instance of either composer awaits at most one insert,
\* and while it awaits one its sending flag is set, which disables the input
\* and the button.
C9_SingleFlight ==
    /\ LiveInserts("room") <= 1
    /\ LiveInserts("dm") <= 1
    /\ LiveInserts("room") = 1 => roomPage.sending
    /\ LiveInserts("dm") = 1 => dmWindow.sending

C9_Witness ==
    /\ LiveInserts("room") = 1
    /\ roomPage.sending
    /\ roomPage.newMessage # << >>

\* C10: when the insert of a send resolves in the mounted composer, success
\* leaves the input empty, and failure raises the error notification and
\* leaves the input holding the text it held when send was called.
C10_SendOutcome ==
    [][\A r \in DOMAIN requests :
          (r.op = "insert" /\ r.live /\ requests' = requests (-) One(r))
          => IF Len(room_messages') + Len(direct_messages')
                  > Len(room_messages) + Len(direct_messages)
             THEN IF r.comp = "room" THEN roomPage'.newMessage = << >>
                  ELSE dmWindow'.newMessage = << >>
             ELSE /\ toast' = "Failed to send message"
                  /\ IF r.comp = "room" THEN roomPage'.newMessage = r.text
                     ELSE dmWindow'.newMessage = r.text]_vars

\* a failed send of a padded text: the notification is up, the input holds
\* the padded text and is enabled again
C10_Witness ==
    /\ toast = "Failed to send message"
    /\ RoomMounted
    /\ roomPage.newMessage = <<" ", "a", " ">>
    /\ ~roomPage.sending

\* C11: when the loadMessages that a mounted component awaits fails and no
\* live event was appended since the conversation became active, the failure
\* is notified, the message list of the component is empty after it (also
\* when the list showed another conversation before), and the component is
\* past its loading screen.
C11_FailedLoadLeavesEmpty ==
    [][\A r \in DOMAIN requests :
          (/\ r.op = "loadMessages"
           /\ r.live
           /\ requests' = requests (-) One(r)
           /\ toast' = "Failed to load messages"
           /\ roomPage.appended = {} /\ dmWindow.appended = {})
          => IF r.comp = "room"
             THEN roomPage'.messages = << >> /\ ~roomPage'.loading
             ELSE dmWindow'.messages = << >> /\ ~dmWindow'.loading]_vars

\* the last n elements of a sequence
MostRecent(s, n) == IF Len(s) <= n THEN s ELSE SubSeq(s, Len(s) - n + 1, Len(s))

\* the persisted messages of a conversation, ascending by created_at
RoomConversation(roomId) ==
    LET InRoom(m) == m.room_id = roomId IN SelectSeq(room_messages, InRoom)

DmConversation(self, peer) ==
    LET InPair(m) ==
            \/ m.sender_id = self /\ m.receiver_id = peer
            \/ m.sender_id = peer /\ m.receiver_id = self
    IN SelectSeq(direct_messages, InPair)

\* C12: when the loadMessages of a mounted component succeeds and no live
\* event was appended, the message list is the most recent min(50, n) of the
\* n persisted messages of the conversation, ascending by created_at.
C12_LoadsMostRecent ==
    [][\A r \in DOMAIN requests :
          (/\ r.op = "loadMessages"
           /\ r.live
           /\ requests' = requests (-) One(r)
           /\ toast' = Null
           /\ roomPage.appended = {} /\ dmWindow.appended = {})
          => IF r.comp = "room"
             THEN roomPage'.messages =
                      JoinedAll(MostRecent(RoomConversation(r.room), Limit))
             ELSE dmWindow'.messages =
                      MostRecent(DmConversation(r.self, r.peer), Limit)]_vars

\* C13: when an insert event is delivered to the direct-message window, its
\* row is appended to the message list if it is from the signed-in user to
\* the selected peer or from that peer to the user, and otherwise the list
\* does not change.
C13_DmAppendsOnlyPair ==
    [][\A ch \in DOMAIN channels :
          (/\ ch.comp = "dm"
           /\ ch.queue # << >>
           /\ channels' = (channels (-) One(ch))
                              (+) One([ch EXCEPT !.queue = Tail(@)]))
          => LET row == Head(ch.queue)
                 inPair ==
                     \/ row.sender_id = user
                            /\ row.receiver_id = selectedChatUserId
                     \/ row.sender_id = selectedChatUserId
                            /\ row.receiver_id = user
             IN dmWindow'.messages =
                    IF inPair THEN Append(dmWindow.messages, row)
                    ELSE dmWindow.messages]_vars

\* the window of p1 was sent a message by p2 and then one by p1: both events
\* were delivered and only the one of p1 is in the list
C13_Witness ==
    /\ DmMounted
    /\ commit = "idle"
    /\ selectedChatUserId = "p1"
    /\ Len(direct_messages) = 2
    /\ direct_messages[1].sender_id = "p2"
    /\ direct_messages[2].sender_id = "p1"
    /\ dmWindow.messages = <<direct_messages[2]>>
    /\ dmWindow.appended = {2}
    /\ \A ch \in DOMAIN channels : ch.queue = << >>

\* C14: every message that a live event appended to the list of the room
\* chat page since the current room was selected is a message of that room.
C14_AppendedOfSelectedRoom ==
    \A id \in roomPage.appended :
        RowById(room_messages, id).room_id = roomPage.selectedRoom

\* request r resolves in this step, in a component that stays mounted
Resolves(r) ==
    /\ r \in DOMAIN requests
    /\ CopiesIn(r, requests') < CopiesIn(r, requests)
    /\ activePage' = activePage

\* C16: when a loadRooms of the mounted page succeeds with a non-empty result
\* and no room is selected, the first room of the result becomes the selected
\* room; no loadRooms that resolves, successfully or not, changes a selection
\* that is not null.
C16_AutoSelectOnlyWhenNone ==
    [][\A r \in DOMAIN requests :
          (r.op = "loadRooms" /\ r.live /\ Resolves(r))
          => IF roomPage.selectedRoom # Null
             THEN roomPage'.selectedRoom = roomPage.selectedRoom
             ELSE (caught' = NoError /\ rooms # << >>)
                      => roomPage'.selectedRoom = rooms[1]]_vars

\* the loadRooms requests among reqs
LoadRoomsIn(reqs) ==
    SumCopies(reqs, {x \in DOMAIN reqs : x.op = "loadRooms"})

InSeq(x, s) == \E i \in 1..Len(s) : s[i] = x

\* C15: when the membership insert of a room creation fails, the created room
\* stays in table rooms, the success notification is raised, the form is
\* reset, the dialog closed and one loadRooms issued; when the room insert
\* fails, the error is notified and neither a membership insert nor a
\* loadRooms is issued.
C15_CreateRoomOutcome ==
    [][\A r \in DOMAIN requests :
          /\ (/\ r.op = "addMember" /\ r.live /\ Resolves(r)
              /\ room_members' = room_members)
             => /\ rooms' = rooms
                /\ InSeq(r.data[1], rooms')
                /\ toast' = "Room created successfully!"
                /\ roomPage'.newRoom = [name |-> << >>, description |-> << >>]
                /\ ~roomPage'.isDialogOpen
                /\ LoadRoomsIn(requests') = LoadRoomsIn(requests) + 1
          /\ (/\ r.op = "createRoom" /\ r.live /\ Resolves(r)
              /\ rooms' = rooms)
             => /\ requests' = requests (-) One(r)
                /\ toast' \notin {Null, "Room created successfully!"}
                /\ room_members' = room_members
                /\ roomPage' = roomPage]_vars

\* the room list of the page shows a created room that has no membership row
C15_Witness ==
    /\ RoomMounted
    /\ InSeq(RoomId(3), roomPage.rooms)
    /\ room_members = {}
    /\ ~roomPage.isDialogOpen
    /\ roomPage.newRoom.name = << >>
    /\ LoadRoomsIn(requests) = 0

\* C17: the delivery of an insert event to the room chat page appends
\* nothing and issues one re-fetch of the row by its id; a re-fetch that
\* resolves leaves the list as it is or appends one entry, which has the id
\* of the event's row and the joined sender profile, and is not the payload.
C17_AppendsRefetchedRow ==
    [][/\ \A ch \in DOMAIN channels :
             (/\ ch.comp = "room"
              /\ ch.queue # << >>
              /\ channels' = (channels (-) One(ch))
                                 (+) One([ch EXCEPT !.queue = Tail(@)]))
             => /\ roomPage' = roomPage
                /\ \E q \in DOMAIN requests' :
                      /\ q.op = "refetch"
                      /\ q.row.id = Head(ch.queue).id
                      /\ requests' = requests (+) One(q)
       /\ \A r \in DOMAIN requests :
             (r.op = "refetch" /\ Resolves(r))
             => \/ roomPage'.messages = roomPage.messages
                \/ \E e \in {roomPage'.messages[Len(roomPage'.messages)]} :
                      /\ roomPage'.messages = Append(roomPage.messages, e)
                      /\ e.id = r.row.id
                      /\ e # r.row
                      /\ "profiles" \in DOMAIN e
                      /\ e.profiles = RowById(room_messages, e.id).sender_id]_vars

\* an event was delivered and its re-fetch resolved: the list holds the row
\* with the profile, and nothing is pending
C17_Witness ==
    /\ RoomMounted
    /\ Len(roomPage.messages) = 1
    /\ roomPage.appended = {roomPage.messages[1].id}
    /\ roomPage.messages[1].profiles = "p1"
    /\ Pending = 0
    /\ \A ch \in DOMAIN channels : ch.queue = << >>

\* C18: when a loadRooms or the room insert of a createRoom fails, the one
\* notification of the step is the access-denied text for code PGRST116, the
\* authentication-required text for code PGRST301, otherwise the error's
\* message when it is not empty, otherwise the default text of the operation.
C18_ErrorMapping ==
    [][\A r \in DOMAIN requests :
          (/\ r.op \in {"loadRooms", "createRoom"}
           /\ CopiesIn(r, requests') < CopiesIn(r, requests)
           /\ caught' # NoError)
          => toast' =
               CASE caught'.code = "PGRST116" ->
                        "Access denied. Please check your permissions."
                 [] caught'.code = "PGRST301" ->
                        "Authentication required. Please sign in again."
                 [] caught'.code \notin {"PGRST116", "PGRST301"}
                        /\ caught'.message # "" -> caught'.message
                 [] OTHER -> IF r.op = "loadRooms" THEN "Failed to load rooms"
                             ELSE "Failed to create room"]_vars

\* a room insert failed with an error that has neither a known code nor a
\* message: the default text of createRoom is shown
C18_Witness ==
    /\ caught = [code |-> "23505", message |-> ""]
    /\ toast = "Failed to create room"
    /\ roomPage.isDialogOpen
    /\ roomPage.newRoom.name = <<"a">>

\* the requests of kind op among reqs
CountOp(reqs, op) == SumCopies(reqs, {x \in DOMAIN reqs : x.op = op})

\* the notifications of a failed send or load
FailureTexts ==
    {"Failed to send message", "Failed to load messages",
     "Failed to load user information"}

\* C19: a step in which a send, a load, a room-list load or a room creation
\* fails removes the failed request and issues none; no step issues more than
\* one request of a kind, and a call of sendMessage that passes its guard
\* issues exactly one insert.
C19_NoRetries ==
    [][/\ (toast' \in FailureTexts \/ caught' # NoError)
          => \E r \in DOMAIN requests : requests' = requests (-) One(r)
       /\ \A op \in {"insert", "loadMessages", "loadOtherUser", "loadRooms",
                     "createRoom", "addMember", "refetch"} :
             CountOp(requests', op) <= CountOp(requests, op) + 1
       /\ lastCall' = "issued"
          => \E q \in DOMAIN requests' :
                q.op = "insert" /\ requests' = requests (+) One(q)]_vars

\* the load of the direct-message window failed: the failure is notified,
\* the window is past its loading screen and nothing is in flight
C19_Witness ==
    /\ toast = "Failed to load messages"
    /\ DmMounted
    /\ user # Null
    /\ ~dmWindow.loading
    /\ Pending = 0

\* C20: when a conversation is active, none of its loadMessages is pending
\* and no live event was appended since it became active, every message in
\* the list is a message of that conversation.
C20_OnlyActiveConversation ==
    /\ (/\ RoomMounted
        /\ roomPage.selectedRoom # Null
        /\ CountOp(requests, "loadMessages") = 0
        /\ roomPage.appended = {})
       => \A i \in 1..Len(roomPage.messages) :
             RowById(room_messages, roomPage.messages[i].id).room_id
                 = roomPage.selectedRoom
    /\ (/\ DmMounted
        /\ commit = "idle"
        /\ user # Null
        /\ CountOp(requests, "loadMessages") = 0
        /\ dmWindow.appended = {})
       => \A i \in 1..Len(dmWindow.messages) :
             LET m == dmWindow.messages[i]
             IN \/ m.sender_id = user /\ m.receiver_id = selectedChatUserId
                \/ m.sender_id = selectedChatUserId /\ m.receiver_id = user

\* C21: in the mounted instance of either component the sending flag is set
\* exactly while an insert issued by its sendMessage is pending; it is set
\* in the step that issues the insert and reset in the step in which the
\* insert resolves, with success or with failure.
C21_SendingWhilePending ==
    /\ roomPage.sending <=> LiveInserts("room") >= 1
    /\ dmWindow.sending <=> LiveInserts("dm") >= 1

\* a send of the direct-message window failed: the flag is reset, the input
\* still holds the text, and no insert is pending
C21_Witness ==
    /\ toast = "Failed to send message"
    /\ DmMounted
    /\ dmWindow.newMessage = <<"a">>
    /\ ~dmWindow.sending
    /\ LiveInserts("dm") = 0

\* no message the signed-in user sent is in the list twice
OwnOnce(list) ==
    \A i, j \in 1..Len(list) :
        (i < j /\ list[i].sender_id = Me) => list[i].id # list[j].id

\* the step is a call of sendMessage or the resolution of its insert
SendStep ==
    \/ lastCall' # Null
    \/ \E r \in DOMAIN requests : r.op = "insert" /\ Resolves(r)

\* C22: a call of sendMessage and the resolution of its insert, with success
\* or failure, leave the message lists unchanged, and a message the user
\* sent, whose insert event is delivered once, is never in a list twice.
C22_SendLeavesList ==
    [][/\ SendStep => /\ roomPage'.messages = roomPage.messages
                      /\ dmWindow'.messages = dmWindow.messages
       /\ OwnOnce(roomPage'.messages)
       /\ OwnOnce(dmWindow'.messages)]_vars


\* an instance of the room chat page exists: it holds state of its own, or
\* awaits a request, or has a channel whose callback still acts
RoomAlive ==
    \/ roomPage # InitRoomPage
    \/ \E r \in DOMAIN requests : r.comp = "room" /\ r.live
    \/ \E ch \in DOMAIN channels : ch.comp = "room" /\ ch.live

\* an instance of the direct-message window exists
DmAlive ==
    \/ [dmWindow EXCEPT !.cleanup = Null] # InitDmWindow
    \/ \E r \in DOMAIN requests : r.comp = "dm" /\ r.live
    \/ \E ch \in DOMAIN channels : ch.comp = "dm" /\ ch.live

\* what is rendered for the page and the chat user of a state
MountedAsRendered ==
    /\ RoomAlive => activePage = "room-chat"
    /\ DmAlive => activePage = "direct-messages" /\ selectedChatUserId # Null
    /\ activePage = "room-chat" /\ user # Null => RoomAlive
    /\ (/\ activePage = "direct-messages"
        /\ selectedChatUserId # Null
        /\ user # Null
        /\ commit = "idle") => DmAlive

\* C23: a step that changes the chat user on the browse-friends page
\* (handleMessageUser) also sets the page to direct-messages, in that step;
\* every other change of page leaves the chat user as it is; and in every
\* state an instance of the direct-message window exists only, and once a
\* user is signed in and its effect has run always, when the page is
\* direct-messages and a chat user is selected, an instance of the room chat
\* page only, and with a user signed in always, when the page is room-chat.
C23_DashboardNavigation ==
    [][/\ (activePage = "browse-friends"
           /\ selectedChatUserId' # selectedChatUserId)
          => activePage' = "direct-messages" /\ selectedChatUserId' \in Peers
       /\ activePage' # activePage /\ activePage # "browse-friends"
          => selectedChatUserId' = selectedChatUserId
       /\ selectedChatUserId' # selectedChatUserId
          => activePage' = "direct-messages"
       /\ MountedAsRendered'
      ]_vars

C23_Witness ==
    /\ activePage = "home"
    /\ selectedChatUserId = "p1"
    /\ commit = "cleanup"
    /\ dmWindow.cleanup = "p1"
    /\ ~DmAlive

====
